---- MODULE Spec2Model ----
(***************************************************************************)
(* A model of the YTTranscriber pipeline:                                  *)
(*   stage 1  00_download_youtube_audio.py   (fetch + transcode)           *)
(*   stage 2  01_transcribe_audio.py         (speech to text)              *)
(*   stage 3  02_summarize_transcription.py  (chunk + summarize)           *)
(*                                                                         *)
(* Text is modelled at character level: a str is a sequence of one-        *)
(* character strings, so that join, split, strip and the sentence regex    *)
(* are computed, not assumed.  A file name is the sequence of its          *)
(* dot-separated segments (<<"my","talk">> is "my.talk"), so that          *)
(* pathlib's suffix handling is computed too.                              *)
(***************************************************************************)
EXTENDS Integers, Sequences, FiniteSets, TLC

VARIABLES
    \* --- create_chunks run on its own (specification SpecChunks) ---
    sentences,       \* argument: List[str]
    max_words,       \* argument
    overlap_words,   \* argument
    cc,              \* locals: chunks, current_chunk, current_word_count, overlap
    cc_i,            \* index of the next sentence of the for loop
    cc_pc,           \* "loop" | "done"
    result,          \* the returned list of chunks
    seeds,           \* history: seeds[k] is the overlap that seeded chunk k
    blocks,          \* history: blocks[k] is the sentences appended to chunk k
    \* --- the three commands on one file system (specification Spec) ---
    dirs,            \* the directories that exist
    files,           \* the files that exist: path -> content
    stage,           \* the command running or run last: 0 (none yet), 1, 2, 3
    pc,              \* its position in main(), "exited" once the process has ended
    args,            \* its parsed arguments and its environment
    loc,             \* the locals of main() and of the functions it calls
    exit_code,       \* its exit status once exited
    printed,         \* the kinds of the messages it has printed that matter here
    net,             \* the requests it has issued to remote services, in order
    made,            \* history: the paths it has created or written (a directory d as d/)
    fs0,             \* history: dirs and files when it started
    hist             \* history: the (name, directory) of the stage 1 runs that exited 0

chunkVars == <<sentences, max_words, overlap_words, cc, cc_i, cc_pc, result, seeds, blocks>>

pipeVars == <<dirs, files, stage, pc, args, loc, exit_code, printed, net, made, fs0, hist>>

vars == <<chunkVars, pipeVars>>

(***************************************************************************)
(* Python str primitives                                                   *)
(***************************************************************************)

\* str.split() and str.strip() treat every whitespace character alike
Whitespace == {" ", "\n"}

\* the character class [.!?] of the sentence regex
SentenceEnd == {".", "!", "?"}

IsWs(c) == c \in Whitespace

Indices(s) == [i \in 1..Len(s) |-> i]

\* s.split(): the maximal runs of non-whitespace characters, in order
Split(s) ==
    LET starts == SelectSeq(Indices(s),
                     LAMBDA i : ~IsWs(s[i]) /\ (i = 1 \/ IsWs(s[i - 1])))
        ends   == SelectSeq(Indices(s),
                     LAMBDA i : ~IsWs(s[i]) /\ (i = Len(s) \/ IsWs(s[i + 1])))
    IN  [k \in 1..Len(starts) |-> SubSeq(s, starts[k], ends[k])]

\* len(s.split())
WordCount(s) == Len(Split(s))

\* sep.join(parts)
RECURSIVE JoinRange(_, _, _, _)
JoinRange(parts, lo, hi, sep) ==
    IF lo > hi THEN <<>>
    ELSE IF lo = hi THEN parts[lo]
    ELSE LET mid == (lo + hi) \div 2
         IN  JoinRange(parts, lo, mid, sep) \o sep \o JoinRange(parts, mid + 1, hi, sep)

Join(parts, sep) == JoinRange(parts, 1, Len(parts), sep)

\* ' '.join(parts)
JoinSp(parts) == Join(parts, <<" ">>)

\* s.strip()
Strip(s) ==
    LET keep == SelectSeq(Indices(s), LAMBDA i : ~IsWs(s[i]))
    IN  IF keep = <<>> THEN <<>> ELSE SubSeq(s, keep[1], keep[Len(keep)])

\* words[-n:] for n >= 1, and words[-0:] == words[0:], the whole list
NegSlice(words, n) ==
    IF n = 0 THEN words
    ELSE SubSeq(words, (IF Len(words) > n THEN Len(words) - n + 1 ELSE 1), Len(words))

(***************************************************************************)
(* Stage 3: split_into_sentences and create_chunks                         *)
(***************************************************************************)

\* re.compile(r'(?<=[.!?]) +').split(text): a separator is a maximal run of
\* spaces that directly follows one of . ! ?
split_into_sentences(text) ==
    LET n         == Len(text)
        runStarts == SelectSeq(Indices(text),
                        LAMBDA i : text[i] = " " /\ (i = 1 \/ text[i - 1] # " "))
        runEnds   == SelectSeq(Indices(text),
                        LAMBDA i : text[i] = " " /\ (i = n \/ text[i + 1] # " "))
        seps      == SelectSeq(Indices(runStarts),
                        LAMBDA k : runStarts[k] > 1 /\ text[runStarts[k] - 1] \in SentenceEnd)
        m         == Len(seps)
    IN  [t \in 1..(m + 1) |->
            SubSeq(text,
                   (IF t = 1 THEN 1 ELSE runEnds[seps[t - 1]] + 1),
                   (IF t = m + 1 THEN n ELSE runStarts[seps[t]] - 1))]

\* the locals of create_chunks before the loop
ChunkerStart ==
    [chunks |-> <<>>, current_chunk |-> <<>>, current_word_count |-> 0, overlap |-> <<>>]

ExceedsSentenceOnly(current_word_count, sentence_word_count, mw) ==
    sentence_word_count > mw

\* the test that closes the current chunk
Exceeds(current_word_count, sentence_word_count, mw) ==
    current_word_count + sentence_word_count > mw

\* the overlap taken from the words of the chunk just closed
OverlapOf(words, ow) ==
    IF Len(words) >= ow THEN NegSlice(words, ow) ELSE words

\* the if-block of the loop body: close the current chunk, seed the next
CloseChunk(st, ow) ==
    LET chunk_text == JoinSp(st.current_chunk)
        words      == Split(JoinSp(st.current_chunk))
        overlap    == OverlapOf(words, ow)
    IN  [chunks             |-> Append(st.chunks, chunk_text),
         current_chunk      |-> << JoinSp(overlap) >>,
         current_word_count |-> Len(overlap),
         overlap            |-> overlap]

\* one iteration of the for loop
LoopBody(st, sentence, mw, ow) ==
    LET sentence_word_count == WordCount(sentence)
        s1 == IF Exceeds(st.current_word_count, sentence_word_count, mw)
              THEN CloseChunk(st, ow)
              ELSE st
    IN  [s1 EXCEPT !.current_chunk = Append(@, sentence),
                   !.current_word_count = @ + sentence_word_count]

FlushDropsLast(st) == st.chunks

FlushSkipsBlank(st) ==
    IF WordCount(JoinSp(st.current_chunk)) > 0
    THEN Append(st.chunks, JoinSp(st.current_chunk))
    ELSE st.chunks

\* the code after the loop: add the last chunk, return chunks
Flush(st) ==
    IF st.current_chunk # <<>>
    THEN Append(st.chunks, JoinSp(st.current_chunk))
    ELSE st.chunks

\* the for loop over sents[lo..hi], in order (split in halves to keep the
\* evaluation shallow)
RECURSIVE ChunkLoop(_, _, _, _, _, _)
ChunkLoop(st, sents, lo, hi, mw, ow) ==
    IF lo > hi THEN st
    ELSE IF lo = hi THEN LoopBody(st, sents[lo], mw, ow)
    ELSE LET mid == (lo + hi) \div 2
         IN  ChunkLoop(ChunkLoop(st, sents, lo, mid, mw, ow), sents, mid + 1, hi, mw, ow)

create_chunks(sents, mw, ow) ==
    Flush(ChunkLoop(ChunkerStart, sents, 1, Len(sents), mw, ow))

(***************************************************************************)
(* Python values, pathlib, the file system                                 *)
(***************************************************************************)

\* Python's None; a str tests true when it is not empty
None == "None"

Truthy(v) == v # None /\ v # ""

\* Path(d) / n, os.path.join(d, n): n is the file name as its dot-separated segments
MkPath(d, n) == [dir |-> d, name |-> n]

NoPath == MkPath("", <<>>)

\* PurePath.suffix is non-empty when the last dot of the name is neither its
\* first nor its last character
HasSuffix(name) ==
    /\ Len(name) >= 2
    /\ name[Len(name)] # ""
    /\ ~(Len(name) = 2 /\ name[1] = "")

\* PurePath.suffix without its dot, <<>> for ''
Suffix(name) == IF HasSuffix(name) THEN << name[Len(name)] >> ELSE <<>>

\* PurePath.with_suffix('.' + ext): an existing suffix is replaced
with_suffix(path, ext) ==
    IF HasSuffix(path.name)
    THEN MkPath(path.dir, SubSeq(path.name, 1, Len(path.name) - 1) \o <<ext>>)
    ELSE MkPath(path.dir, path.name \o <<ext>>)

\* PurePath.stem
Stem(path) ==
    IF HasSuffix(path.name) THEN SubSeq(path.name, 1, Len(path.name) - 1) ELSE path.name

\* f"{base}.{ext}" on a path kept as a str
AddExt(base, ext) == MkPath(base.dir, base.name \o <<ext>>)

\* os.path.exists / Path.is_file on the modelled files
Exists(path) == path \in DOMAIN files

WriteFile(f, path, content) ==
    [q \in DOMAIN f \cup {path} |-> IF q = path THEN content ELSE f[q]]

RemoveFile(f, path) == [q \in DOMAIN f \ {path} |-> f[q]]

(***************************************************************************)
(* Inputs                                                                  *)
(***************************************************************************)

Str_a   == <<"a", ".">>
Str_bc  == <<"b", " ", " ", "c", "!">>
Str_def == <<"d", " ", "e", "\n", "f", "?">>

N_foo     == <<"foo">>
N_my_talk == <<"my", "talk">>
N_foo_ogg == <<"foo", "ogg">>
N_foo_opus == <<"foo", "opus">>
N_foo_txt == <<"foo", "txt">>

Names1 == { N_foo }
Names2 == { N_foo, N_my_talk, N_foo_ogg, N_foo_opus }
Names3 == { N_foo, N_my_talk, N_foo_txt }

Dirs1          == { "audio" }
InputDirs2     == { "audio", "transcripts" }
TranscriptDirs == { "transcripts" }
InputDirs3     == { "transcripts" }
SummaryDirs    == { "summaries", "transcripts" }

FlagKeys == { None, "", "sk-flag" }
EnvKeys  == { None, "sk-env" }

ErrorKinds == { "auth", "connection", "api", "unexpected" }

\* file contents that are not text
FLAC == << "fLaC" >>
OPUS == << "OpusHead" >>
OGG  == << "OggS" >>

\* a transcript of LongSentences sentences of LongSentenceWords words each,
\* "w w ... w. w w ... w."
LongSentences == 16

LongSentenceWords == 50

LongText ==
    LET period == 2 * LongSentenceWords + 1
    IN  [i \in 1..(period * LongSentences - 1) |->
            IF i % period = 0 THEN " "
            ELSE IF i % period = period - 1 THEN "."
            ELSE IF i % 2 = 1 THEN "w" ELSE " "]

ShortText == Str_a \o <<" ", " ">> \o Str_bc \o <<" ">> \o Str_def

OldSummary == <<"o", "l", "d">>

TranscriptPool == { <<>>, ShortText, LongText }

ResponsePool == { <<"s", "1">>, <<" ", "s", " ", "2", "\n">> }

EmptyFiles == [q \in {} |-> <<>>]

\* a disk that earlier work has left behind
UsedFiles ==
    [q \in { MkPath("audio", N_foo_ogg), MkPath("transcripts", N_foo_txt),
             MkPath("summaries", N_foo_txt) } |->
        IF q.dir = "audio" THEN OGG
        ELSE IF q.dir = "transcripts" THEN LongText ELSE OldSummary]

(***************************************************************************)
(* The running command                                                     *)
(***************************************************************************)

LocInit ==
    [api_key |-> None, output_base |-> NoPath, flac_path |-> NoPath, opus_path |-> NoPath,
     audio_path |-> NoPath, transcript_path |-> NoPath, transcription |-> <<>>,
     transcription_path |-> NoPath, transcription_text |-> <<>>,
     sentences |-> <<>>, chunks |-> <<>>, chunk_summaries |-> <<>>, idx |-> 0,
     full_summary |-> <<>>, summary_path |-> NoPath]

Idle == pc \in {"idle", "exited"}

\* a command is started from the shell: commands run one at a time, in pipeline order
Begin(k, a, first) ==
    /\ Idle
    /\ stage < k
    /\ stage' = k
    /\ pc' = first
    /\ args' = a
    /\ loc' = LocInit
    /\ exit_code' = -1
    /\ printed' = <<>>
    /\ net' = <<>>
    /\ made' = {}
    /\ fs0' = [dirs |-> dirs, files |-> files]
    /\ UNCHANGED <<dirs, files, hist>>

\* print(message); sys.exit(code)
Exit(code, message) ==
    /\ pc' = "exited"
    /\ exit_code' = code
    /\ printed' = IF message = None THEN printed ELSE Append(printed, message)

PipeInit ==
    /\ \/ dirs = {} /\ files = EmptyFiles
       \/ dirs = {"audio", "transcripts", "summaries"} /\ files = UsedFiles
    /\ stage = 0
    /\ pc = "idle"
    /\ args = [command |-> None]
    /\ loc = LocInit
    /\ exit_code = -1
    /\ printed = <<>>
    /\ net = <<>>
    /\ made = {}
    /\ fs0 = [dirs |-> dirs, files |-> files]
    /\ hist = {}

(***************************************************************************)
(* Stage 1: 00_download_youtube_audio.py                                   *)
(***************************************************************************)

S1_Start ==
    /\ \E n \in Names1, d \in Dirs1 :
          Begin(1, [command |-> "download", name |-> n, directory |-> d], "check_ffmpeg")
    /\ UNCHANGED chunkVars

\* check_ffmpeg_installed()
S1_CheckFfmpeg ==
    /\ stage = 1 /\ pc = "check_ffmpeg"
    /\ \/ /\ pc' = "makedirs"
          /\ UNCHANGED <<exit_code, printed>>
       \/ Exit(1, "ffmpeg_missing")
    /\ UNCHANGED <<dirs, files, stage, args, loc, net, made, fs0, hist, chunkVars>>

\* os.makedirs(directory, exist_ok=True); output_base, flac_path, opus_path
S1_Makedirs ==
    /\ stage = 1 /\ pc = "makedirs"
    /\ dirs' = dirs \cup {args.directory}
    /\ made' = IF args.directory \in dirs THEN made ELSE made \cup {MkPath(args.directory, <<>>)}
    /\ LET output_base == MkPath(args.directory, args.name)
       IN  loc' = [loc EXCEPT !.output_base = output_base,
                              !.flac_path = AddExt(output_base, "flac"),
                              !.opus_path = AddExt(output_base, "opus")]
    /\ pc' = "download"
    /\ UNCHANGED <<files, stage, args, exit_code, printed, net, fs0, hist, chunkVars>>

\* download_audio(youtube_url, output_base): the downloader either raises
\* DownloadError, or returns having written <output_base>.flac, or returns
\* without that file; the function exits unless the file is there
S1_Download ==
    /\ stage = 1 /\ pc = "download"
    /\ net' = Append(net, [service |-> "youtube"])
    /\ \/ /\ Exit(1, "download_error")
          /\ UNCHANGED <<files, made>>
       \/ /\ files' = WriteFile(files, AddExt(loc.output_base, "flac"), FLAC)
          /\ made' = made \cup {AddExt(loc.output_base, "flac")}
          /\ pc' = "convert"
          /\ UNCHANGED <<exit_code, printed>>
       \/ /\ UNCHANGED <<files, made>>
          /\ IF Exists(AddExt(loc.output_base, "flac"))
             THEN pc' = "convert" /\ UNCHANGED <<exit_code, printed>>
             ELSE Exit(1, "flac_not_found")
    /\ UNCHANGED <<dirs, stage, args, loc, fs0, hist, chunkVars>>

\* convert_flac_to_opus(flac_path, opus_path, bitrate): ffmpeg overwrites the output
S1_Convert ==
    /\ stage = 1 /\ pc = "convert"
    /\ \/ /\ files' = WriteFile(files, loc.opus_path, OPUS)
          /\ made' = made \cup {loc.opus_path}
          /\ pc' = "remove"
          /\ UNCHANGED <<exit_code, printed>>
       \/ /\ Exit(1, "conversion_error")
          /\ UNCHANGED <<files, made>>
    /\ UNCHANGED <<dirs, stage, args, loc, net, fs0, hist, chunkVars>>

S1_Remove_KeepsFlac ==
    /\ stage = 1 /\ pc = "remove"
    /\ Exit(0, None)
    /\ hist' = hist \cup { [name |-> args.name, directory |-> args.directory] }
    /\ UNCHANGED <<dirs, files, stage, args, loc, net, made, fs0, chunkVars>>

\* try: os.remove(flac_path)  except OSError: print a warning; then main returns
S1_Remove ==
    /\ stage = 1 /\ pc = "remove"
    /\ \/ /\ files' = RemoveFile(files, loc.flac_path)
          /\ Exit(0, None)
       \/ /\ UNCHANGED files
          /\ Exit(0, "warning_flac_not_deleted")
    /\ hist' = hist \cup { [name |-> args.name, directory |-> args.directory] }
    /\ UNCHANGED <<dirs, stage, args, loc, net, made, fs0, chunkVars>>

(***************************************************************************)
(* Stages 2 and 3: the API key                                             *)
(***************************************************************************)

get_api_key_EnvFirst(provided_key, env_key) ==
    IF Truthy(env_key) THEN env_key
    ELSE IF Truthy(provided_key) THEN provided_key ELSE None

\* get_api_key(provided_key): the key, or None where the function exits
get_api_key(provided_key, env_key) ==
    IF Truthy(provided_key) THEN provided_key
    ELSE IF ~Truthy(env_key) THEN None
    ELSE env_key

\* main(): api_key = get_api_key(provided_api_key), in both stages
GetApiKey(next) ==
    /\ pc = "get_api_key"
    /\ LET api_key == get_api_key(args.api_key, args.OPENAI_API_KEY)
       IN  IF api_key = None
           THEN Exit(1, "no_api_key") /\ UNCHANGED loc
           ELSE /\ loc' = [loc EXCEPT !.api_key = api_key]
                /\ pc' = next
                /\ UNCHANGED <<exit_code, printed>>
    /\ UNCHANGED <<dirs, files, stage, args, net, made, fs0, hist, chunkVars>>

(***************************************************************************)
(* Stage 2: 01_transcribe_audio.py                                         *)
(***************************************************************************)

construct_audio_path(audio_name, input_directory) ==
    LET audio_path == MkPath(input_directory, audio_name)
    IN  IF Suffix(audio_path.name) # <<"ogg">>
        THEN with_suffix(audio_path, "ogg")
        ELSE audio_path

S2_Start ==
    /\ \E n \in Names2, d \in InputDirs2, t \in TranscriptDirs, k \in FlagKeys, e \in EnvKeys :
          Begin(2, [command |-> "transcribe", audio_name |-> n, input_directory |-> d,
                    transcript_directory |-> t, api_key |-> k, OPENAI_API_KEY |-> e],
                "get_api_key")
    /\ UNCHANGED chunkVars

S2_GetApiKey == stage = 2 /\ GetApiKey("construct_path")

S2_ConstructPath ==
    /\ stage = 2 /\ pc = "construct_path"
    /\ loc' = [loc EXCEPT !.audio_path =
                  construct_audio_path(args.audio_name, args.input_directory)]
    /\ pc' = "check_file"
    /\ UNCHANGED <<dirs, files, stage, args, exit_code, printed, net, made, fs0, hist, chunkVars>>

S2_CheckFile_NoExit ==
    /\ stage = 2 /\ pc = "check_file"
    /\ pc' = "mkdir"
    /\ UNCHANGED <<dirs, files, stage, args, loc, exit_code, printed, net, made, fs0, hist,
                   chunkVars>>

\* check_file_exists(audio_path)
S2_CheckFile ==
    /\ stage = 2 /\ pc = "check_file"
    /\ IF Exists(loc.audio_path)
       THEN pc' = "mkdir" /\ UNCHANGED <<exit_code, printed>>
       ELSE Exit(1, "missing_file")
    /\ UNCHANGED <<dirs, files, stage, args, loc, net, made, fs0, hist, chunkVars>>

\* transcript_directory.mkdir(parents=True, exist_ok=True); transcript_path
S2_Mkdir ==
    /\ stage = 2 /\ pc = "mkdir"
    /\ dirs' = dirs \cup {args.transcript_directory}
    /\ made' = IF args.transcript_directory \in dirs THEN made
               ELSE made \cup {MkPath(args.transcript_directory, <<>>)}
    /\ loc' = [loc EXCEPT !.transcript_path =
                  MkPath(args.transcript_directory, Stem(loc.audio_path) \o <<"txt">>)]
    /\ pc' = "transcribe"
    /\ UNCHANGED <<files, stage, args, exit_code, printed, net, fs0, hist, chunkVars>>

\* transcribe_audio(api_key, audio_path): one blocking request; any exception exits
S2_Transcribe ==
    /\ stage = 2 /\ pc = "transcribe"
    /\ net' = Append(net, [service |-> "whisper", api_key |-> loc.api_key,
                           file |-> loc.audio_path])
    /\ \/ \E text \in TranscriptPool :
             /\ loc' = [loc EXCEPT !.transcription = text]
             /\ pc' = "save"
             /\ UNCHANGED <<exit_code, printed>>
       \/ \E kind \in ErrorKinds :
             /\ Exit(1, kind)
             /\ UNCHANGED loc
    /\ UNCHANGED <<dirs, files, stage, args, made, fs0, hist, chunkVars>>

\* save_transcription(transcription, transcript_path): open() may fail, and so
\* may write() once open() has truncated the file
S2_Save ==
    /\ stage = 2 /\ pc = "save"
    /\ \/ /\ files' = WriteFile(files, loc.transcript_path, loc.transcription)
          /\ made' = made \cup {loc.transcript_path}
          /\ Exit(0, None)
       \/ /\ UNCHANGED <<files, made>>
          /\ Exit(1, "save_failed")
       \/ /\ files' = WriteFile(files, loc.transcript_path, <<>>)
          /\ made' = made \cup {loc.transcript_path}
          /\ Exit(1, "save_failed")
    /\ UNCHANGED <<dirs, stage, args, loc, net, fs0, hist, chunkVars>>

(***************************************************************************)
(* Stage 3: 02_summarize_transcription.py                                  *)
(***************************************************************************)

DEFAULT_MAX_WORDS == 750

DEFAULT_OVERLAP_WORDS == 75

construct_transcription_path(transcription_name, input_directory) ==
    LET transcription_path == MkPath(input_directory, transcription_name)
    IN  IF Suffix(transcription_path.name) # <<"txt">>
        THEN with_suffix(transcription_path, "txt")
        ELSE transcription_path

SystemContent_IgnoresVerbosity(summarization_type, verbosity) ==
    << "preamble",
       (IF summarization_type = "extractive" THEN "extractive_clause"
                                              ELSE "abstractive_clause"),
       "succinct_clause" >>

\* the system message of generate_summary_for_chunk, as the clauses it is made of
SystemContent(summarization_type, verbosity) ==
    << "preamble",
       (IF summarization_type = "extractive" THEN "extractive_clause"
                                              ELSE "abstractive_clause"),
       (IF verbosity = "verbose" THEN "verbose_clause" ELSE "succinct_clause") >>

CombineWithSpaces(chunk_summaries) == Join(chunk_summaries, <<" ">>)

\* "\n".join(chunk_summaries)
Combine(chunk_summaries) == Join(chunk_summaries, <<"\n">>)

S3_Start ==
    /\ \E n \in Names3, d \in InputDirs3, s \in SummaryDirs, k \in FlagKeys, e \in EnvKeys,
          ty \in {"extractive", "abstractive"}, v \in {"verbose", "succinct"} :
          Begin(3, [command |-> "summarize", transcription_name |-> n, input_directory |-> d,
                    summary_directory |-> s, summarization_type |-> ty, verbosity |-> v,
                    api_key |-> k, OPENAI_API_KEY |-> e],
                "get_api_key")
    /\ UNCHANGED chunkVars

S3_GetApiKey == stage = 3 /\ GetApiKey("construct_path")

S3_ConstructPath ==
    /\ stage = 3 /\ pc = "construct_path"
    /\ loc' = [loc EXCEPT !.transcription_path =
                  construct_transcription_path(args.transcription_name, args.input_directory)]
    /\ pc' = "check_file"
    /\ UNCHANGED <<dirs, files, stage, args, exit_code, printed, net, made, fs0, hist, chunkVars>>

\* check_file_exists(transcription_path)
S3_CheckFile ==
    /\ stage = 3 /\ pc = "check_file"
    /\ IF Exists(loc.transcription_path)
       THEN pc' = "read" /\ UNCHANGED <<exit_code, printed>>
       ELSE Exit(1, "missing_file")
    /\ UNCHANGED <<dirs, files, stage, args, loc, net, made, fs0, hist, chunkVars>>

\* read_transcription(transcription_path)
S3_Read ==
    /\ stage = 3 /\ pc = "read"
    /\ \/ /\ loc' = [loc EXCEPT !.transcription_text = files[loc.transcription_path]]
          /\ pc' = "chunk"
          /\ UNCHANGED <<exit_code, printed>>
       \/ /\ Exit(1, "read_failed")
          /\ UNCHANGED loc
    /\ UNCHANGED <<dirs, files, stage, args, net, made, fs0, hist, chunkVars>>

\* generate_full_summary: sentences, chunks = create_chunks(sentences), chunk_summaries = []
S3_Chunk ==
    /\ stage = 3 /\ pc = "chunk"
    /\ LET sents == split_into_sentences(loc.transcription_text)
       IN  loc' = [loc EXCEPT !.sentences = sents,
                              !.chunks = create_chunks(sents, DEFAULT_MAX_WORDS,
                                                       DEFAULT_OVERLAP_WORDS),
                              !.chunk_summaries = <<>>,
                              !.idx = 1]
    /\ pc' = "summarize"
    /\ UNCHANGED <<dirs, files, stage, args, exit_code, printed, net, made, fs0, hist, chunkVars>>

\* generate_summary_for_chunk: client.chat.completions.create(...) is called
S3_Request ==
    /\ stage = 3 /\ pc = "summarize"
    /\ loc.idx <= Len(loc.chunks)
    /\ net' = Append(net, [service |-> "chat", api_key |-> loc.api_key,
                           system_content |-> SystemContent(args.summarization_type,
                                                            args.verbosity),
                           chunk |-> loc.chunks[loc.idx],
                           answered |-> FALSE, response |-> <<>>])
    /\ pc' = "await"
    /\ UNCHANGED <<dirs, files, stage, args, loc, exit_code, printed, made, fs0, hist, chunkVars>>

S3_Response_ContinuesOnError ==
    /\ stage = 3 /\ pc = "await"
    /\ \/ \E r \in ResponsePool :
             /\ net' = [net EXCEPT ![Len(net)].answered = TRUE, ![Len(net)].response = r]
             /\ loc' = [loc EXCEPT !.chunk_summaries = Append(@, Strip(r)), !.idx = @ + 1]
             /\ pc' = "summarize"
             /\ UNCHANGED <<exit_code, printed>>
       \/ \E kind \in ErrorKinds :
             /\ loc' = [loc EXCEPT !.chunk_summaries = Append(@, <<>>), !.idx = @ + 1]
             /\ pc' = "summarize"
             /\ printed' = Append(printed, kind)
             /\ UNCHANGED <<net, exit_code>>
    /\ UNCHANGED <<dirs, files, stage, args, made, fs0, hist, chunkVars>>

\* the call returns: the stripped content is appended, or any exception exits
S3_Response ==
    /\ stage = 3 /\ pc = "await"
    /\ \/ \E r \in ResponsePool :
             /\ net' = [net EXCEPT ![Len(net)].answered = TRUE, ![Len(net)].response = r]
             /\ loc' = [loc EXCEPT !.chunk_summaries = Append(@, Strip(r)), !.idx = @ + 1]
             /\ pc' = "summarize"
             /\ UNCHANGED <<exit_code, printed>>
       \/ \E kind \in ErrorKinds :
             /\ Exit(1, kind)
             /\ UNCHANGED <<net, loc>>
    /\ UNCHANGED <<dirs, files, stage, args, made, fs0, hist, chunkVars>>

\* the loop is over: full_summary_text = "\n".join(chunk_summaries)
S3_Combine ==
    /\ stage = 3 /\ pc = "summarize"
    /\ loc.idx > Len(loc.chunks)
    /\ loc' = [loc EXCEPT !.full_summary = Combine(loc.chunk_summaries)]
    /\ pc' = "mkdir"
    /\ UNCHANGED <<dirs, files, stage, args, exit_code, printed, net, made, fs0, hist, chunkVars>>

\* summary_directory.mkdir(parents=True, exist_ok=True); summary_path
S3_Mkdir ==
    /\ stage = 3 /\ pc = "mkdir"
    /\ dirs' = dirs \cup {args.summary_directory}
    /\ made' = IF args.summary_directory \in dirs THEN made
               ELSE made \cup {MkPath(args.summary_directory, <<>>)}
    /\ loc' = [loc EXCEPT !.summary_path =
                  MkPath(args.summary_directory, Stem(loc.transcription_path) \o <<"txt">>)]
    /\ pc' = "save"
    /\ UNCHANGED <<files, stage, args, exit_code, printed, net, fs0, hist, chunkVars>>

\* save_summary(full_summary, summary_path)
S3_Save ==
    /\ stage = 3 /\ pc = "save"
    /\ \/ /\ files' = WriteFile(files, loc.summary_path, loc.full_summary)
          /\ made' = made \cup {loc.summary_path}
          /\ Exit(0, None)
       \/ /\ UNCHANGED <<files, made>>
          /\ Exit(1, "save_failed")
       \/ /\ files' = WriteFile(files, loc.summary_path, <<>>)
          /\ made' = made \cup {loc.summary_path}
          /\ Exit(1, "save_failed")
    /\ UNCHANGED <<dirs, stage, args, loc, net, fs0, hist, chunkVars>>

PipeNext ==
    \/ S1_Start \/ S1_CheckFfmpeg \/ S1_Makedirs \/ S1_Download \/ S1_Convert \/ S1_Remove
    \/ S2_Start \/ S2_GetApiKey \/ S2_ConstructPath \/ S2_CheckFile \/ S2_Mkdir
    \/ S2_Transcribe \/ S2_Save
    \/ S3_Start \/ S3_GetApiKey \/ S3_ConstructPath \/ S3_CheckFile \/ S3_Read \/ S3_Chunk
    \/ S3_Request \/ S3_Response \/ S3_Combine \/ S3_Mkdir \/ S3_Save


(***************************************************************************)
(* The pipeline: the three commands, run from the shell on one disk        *)
(***************************************************************************)

Init ==
    /\ PipeInit
    /\ sentences = <<>>
    /\ max_words = DEFAULT_MAX_WORDS
    /\ overlap_words = DEFAULT_OVERLAP_WORDS
    /\ cc = ChunkerStart
    /\ cc_i = 1
    /\ cc_pc = "idle"
    /\ result = <<>>
    /\ seeds = << <<>> >>
    /\ blocks = << <<>> >>

Next == PipeNext

Spec == Init /\ [][Next]_vars

(***************************************************************************)
(* Properties of the pipeline (specification Spec)                         *)
(***************************************************************************)

\* C1 (as claimed): once stage 1 has exited 0 for base name N in directory D,
\* stage 2 run with audio name N and input directory D resolves its input to
\* D/N.opus, the file stage 1 wrote, finds it and does not exit for a missing file.
C1_StageCoupling ==
    ( /\ stage = 2
      /\ [name |-> args.audio_name, directory |-> args.input_directory] \in hist
      /\ loc.api_key # None
      /\ pc \notin {"get_api_key", "construct_path"} )
    => /\ loc.audio_path = MkPath(args.input_directory, args.audio_name \o <<"opus">>)
       /\ Exists(loc.audio_path)
       /\ ~(pc = "exited" /\ printed = <<"missing_file">>)

Stage1Succeeded == stage = 1 /\ pc = "exited" /\ exit_code = 0 /\ Len(args.name) = 1

\* C2 (as claimed): every run of stage 1 on an extension-less base name that exits 0
\* leaves directory/name.opus present and no directory/name.flac.
C2_NoResidualFlac ==
    Stage1Succeeded =>
        /\ Exists(MkPath(args.directory, args.name \o <<"opus">>))
        /\ ~Exists(MkPath(args.directory, args.name \o <<"flac">>))

\* C2 (amended): every such run leaves directory/name.opus present, holding the
\* converted audio, and leaves directory/name.flac behind exactly when deleting it
\* failed, which the run reports with a warning.
C2_OpusAndFlacUnlessWarned ==
    Stage1Succeeded =>
        /\ Exists(MkPath(args.directory, args.name \o <<"opus">>))
        /\ files[MkPath(args.directory, args.name \o <<"opus">>)] = OPUS
        /\ Exists(MkPath(args.directory, args.name \o <<"flac">>))
              <=> printed = <<"warning_flac_not_deleted">>

C2_Witness ==
    /\ Stage1Succeeded
    /\ Exists(MkPath(args.directory, args.name \o <<"opus">>))
    /\ ~Exists(MkPath(args.directory, args.name \o <<"flac">>))
    /\ MkPath(args.directory, args.name \o <<"flac">>) \in made

\* C3: with a credential available, when the resolved audio path does not exist
\* stage 2 exits 1, has issued no request, and has created no file or directory.
C3_MissingInput ==
    ( /\ stage = 2
      /\ loc.api_key # None
      /\ pc \notin {"get_api_key", "construct_path", "check_file"}
      /\ ~Exists(loc.audio_path) )
    => /\ pc = "exited"
       /\ exit_code = 1
       /\ net = <<>>
       /\ made = {}
       /\ files = fs0.files
       /\ dirs = fs0.dirs

C3_Witness ==
    /\ stage = 2
    /\ pc = "exited"
    /\ loc.api_key # None
    /\ loc.audio_path # NoPath
    /\ ~Exists(loc.audio_path)
    /\ ~Exists(MkPath(args.transcript_directory, Stem(loc.audio_path) \o <<"txt">>))

\* request i of stage 3 has failed: it got no response and is not being awaited
Failed(i) == ~net[i].answered /\ ~(i = Len(net) /\ pc = "await")

\* C4: if the request for some chunk k fails, stage 3 exits 1, the failed request
\* is the last one issued, and no file is created or modified.
C4_AllOrNothing ==
    ( stage = 3 /\ \E k \in 1..Len(net) : Failed(k) )
    => /\ pc = "exited"
       /\ exit_code = 1
       /\ \A k \in 1..Len(net) : Failed(k) => k = Len(net)
       /\ \A k \in 1..Len(net) : net[k].chunk = loc.chunks[k]
       /\ files = fs0.files
       /\ made = {}

C4_Witness ==
    /\ stage = 3
    /\ pc = "exited"
    /\ Len(net) = 2
    /\ Len(loc.chunks) = 2
    /\ net[1].answered /\ Failed(2)
    /\ loc.chunk_summaries # <<>>
    /\ Exists(MkPath(args.summary_directory, Stem(loc.transcription_path) \o <<"txt">>))

Stage3Succeeded == stage = 3 /\ pc = "exited" /\ exit_code = 0 /\ printed = <<>>

\* requests are issued for the chunks in input order, one per chunk, each only
\* after the one before it has been answered
OneAtATimeInOrder ==
    /\ Len(net) <= Len(loc.chunks)
    /\ \A i \in 1..Len(net) : net[i].chunk = loc.chunks[i]
    /\ \A i \in 1..(Len(net) - 1) : net[i].answered
    /\ Len(net) > 0 /\ ~net[Len(net)].answered => pc \in {"await", "exited"}

\* C5 (as claimed): one request per chunk, one at a time, in input order, and on
\* success the summary is the responses joined with newlines.
C5_ResponsesJoined ==
    stage = 3 =>
        /\ OneAtATimeInOrder
        /\ Stage3Succeeded =>
              /\ Len(net) = Len(loc.chunks)
              /\ files[loc.summary_path] =
                    Join([i \in 1..Len(net) |-> net[i].response], <<"\n">>)

\* C5 (amended): one request per chunk, one at a time, in input order, and on
\* success the summary is the responses, each stripped of leading and trailing
\* whitespace, joined with newlines.
C5_StrippedResponsesJoined ==
    stage = 3 =>
        /\ OneAtATimeInOrder
        /\ Stage3Succeeded =>
              /\ Len(net) = Len(loc.chunks)
              /\ \A i \in 1..Len(net) : net[i].answered
              /\ loc.full_summary =
                    Join([i \in 1..Len(net) |-> Strip(net[i].response)], <<"\n">>)
              /\ files[loc.summary_path] = loc.full_summary

C5_Witness ==
    /\ Stage3Succeeded
    /\ Len(net) = 2
    /\ net[1].chunk # net[2].chunk
    /\ net[1].response # net[2].response
    /\ Strip(net[1].response) # net[1].response

Appended(name, ext) ==
    IF Len(name) >= 2 /\ name[Len(name)] = ext THEN name ELSE name \o <<ext>>

\* C6 (as claimed): in stages 2 and 3 a name that does not end in the stage's
\* extension is kept whole and has the extension appended, and a name that ends
\* in it is used unchanged, also for names that contain a dot.
C6_ExtensionAppended ==
    /\ (stage = 2 /\ loc.audio_path # NoPath)
          => loc.audio_path =
                MkPath(args.input_directory, Appended(args.audio_name, "ogg"))
    /\ (stage = 3 /\ loc.transcription_path # NoPath)
          => loc.transcription_path =
                MkPath(args.input_directory, Appended(args.transcription_name, "txt"))

\* C7: in stages 2 and 3, when neither --api_key nor OPENAI_API_KEY holds a
\* non-empty key the run exits 1 having issued no request and created nothing;
\* when --api_key is given it is the key used, whatever the environment holds.
C7_CredentialFirst ==
    (stage \in {2, 3} /\ pc # "get_api_key") =>
        /\ (~Truthy(args.api_key) /\ ~Truthy(args.OPENAI_API_KEY))
              => /\ pc = "exited"
                 /\ exit_code = 1
                 /\ net = <<>>
                 /\ made = {}
                 /\ files = fs0.files
                 /\ dirs = fs0.dirs
        /\ Truthy(args.api_key)
              => /\ loc.api_key = args.api_key
                 /\ \A i \in 1..Len(net) : net[i].api_key = args.api_key

C7_Witness ==
    /\ stage = 3
    /\ args.api_key = ""
    /\ args.OPENAI_API_KEY = None
    /\ pc = "exited"
    /\ exit_code = 1
    /\ Exists(MkPath(args.input_directory, N_foo_txt))

\* the clauses a system message holds
ClausesOf(system_content) == { system_content[j] : j \in 1..Len(system_content) }

\* C11: the instruction text sent with every chunk is the preamble, then the
\* clause of the selected summarization type, then the clause of the selected
\* verbosity, and holds neither of the two clauses that were not selected.
C11_PromptConstruction ==
    stage = 3 =>
        \A i \in 1..Len(net) :
            LET sc == net[i].system_content
            IN  /\ Len(sc) = 3
                /\ sc[1] = "preamble"
                /\ args.summarization_type = "extractive"
                      => sc[2] = "extractive_clause" /\ "abstractive_clause" \notin ClausesOf(sc)
                /\ args.summarization_type = "abstractive"
                      => sc[2] = "abstractive_clause" /\ "extractive_clause" \notin ClausesOf(sc)
                /\ args.verbosity = "verbose"
                      => sc[3] = "verbose_clause" /\ "succinct_clause" \notin ClausesOf(sc)
                /\ args.verbosity = "succinct"
                      => sc[3] = "succinct_clause" /\ "verbose_clause" \notin ClausesOf(sc)

C11_Witness ==
    /\ stage = 3
    /\ args.summarization_type = "extractive"
    /\ args.verbosity = "verbose"
    /\ Len(net) = 2
    /\ net[2].system_content = <<"preamble", "extractive_clause", "verbose_clause">>

\* C12: when the transcript text is empty, sentence splitting gives one empty
\* sentence and create_chunks gives exactly one chunk, the empty string, so the
\* run issues exactly one summarization request, for an empty chunk.
C12_EmptyTranscript ==
    (stage = 3 /\ loc.idx >= 1 /\ loc.transcription_text = <<>>) =>
        /\ loc.sentences = << <<>> >>
        /\ loc.chunks = << <<>> >>
        /\ Len(net) <= 1
        /\ \A i \in 1..Len(net) : net[i].chunk = <<>>
        /\ (loc.idx > 1 \/ pc = "await") => Len(net) = 1
        /\ Stage3Succeeded => Len(net) = 1 /\ net[1].answered

C12_Witness ==
    /\ Stage3Succeeded
    /\ loc.transcription_text = <<>>
    /\ loc.chunks = << <<>> >>
    /\ Len(net) = 1
    /\ net[1].chunk = <<>>

\* C14 (as claimed): a run of stage 3, successful or failed, leaves the
\* transcript file it resolved with the content it had when the run began, and
\* the summary path is never the transcript path.
C14_InputUntouched ==
    ( /\ stage = 3
      /\ loc.transcription_path # NoPath
      /\ loc.transcription_path \in DOMAIN fs0.files )
    => /\ Exists(loc.transcription_path)
       /\ files[loc.transcription_path] = fs0.files[loc.transcription_path]
       /\ loc.summary_path # loc.transcription_path


(***************************************************************************)
(* create_chunks on its own: one action per loop iteration (SpecChunks)     *)
(***************************************************************************)

MaxSentences == 3
MaxWordsBound == 3
OverlapBound == 2

SentencePool == { <<>>, Str_a, Str_bc, Str_def }

TextPool == { <<>>, Str_a \o <<" ">>, Str_a \o <<" ", " ">> \o Str_bc \o <<" ">> \o Str_def,
              <<" ">> \o Str_def \o <<" ">> \o Str_a }

SentenceSeqs == UNION { [1..n -> SentencePool] : n \in 0..MaxSentences }

ChunkInit ==
    /\ sentences \in SentenceSeqs \cup { split_into_sentences(t) : t \in TextPool }
    /\ max_words \in 1..MaxWordsBound
    /\ overlap_words \in 0..OverlapBound
    /\ cc = ChunkerStart
    /\ cc_i = 1
    /\ cc_pc = "loop"
    /\ result = <<>>
    /\ seeds = << <<>> >>
    /\ blocks = << <<>> >>
    /\ dirs = {} /\ files = EmptyFiles
    /\ stage = 0
    /\ pc = "idle"
    /\ args = [command |-> None]
    /\ loc = LocInit
    /\ exit_code = -1
    /\ printed = <<>>
    /\ net = <<>>
    /\ made = {}
    /\ fs0 = [dirs |-> {}, files |-> EmptyFiles]
    /\ hist = {}

\* for sentence in sentences: ...
CC_Iterate ==
    /\ cc_pc = "loop"
    /\ cc_i <= Len(sentences)
    /\ LET sentence == sentences[cc_i]
           closes   == Len(LoopBody(cc, sentence, max_words, overlap_words).chunks)
                         > Len(cc.chunks)
       IN  /\ cc' = LoopBody(cc, sentence, max_words, overlap_words)
           /\ seeds' = IF closes THEN Append(seeds, cc'.overlap) ELSE seeds
           /\ blocks' = IF closes THEN Append(blocks, <<sentence>>)
                        ELSE [blocks EXCEPT ![Len(blocks)] = Append(@, sentence)]
    /\ cc_i' = cc_i + 1
    /\ UNCHANGED <<sentences, max_words, overlap_words, cc_pc, result, pipeVars>>

\* if current_chunk: chunks.append(...); return chunks
CC_Return ==
    /\ cc_pc = "loop"
    /\ cc_i > Len(sentences)
    /\ result' = Flush(cc)
    /\ cc_pc' = "done"
    /\ UNCHANGED <<sentences, max_words, overlap_words, cc, cc_i, seeds, blocks, pipeVars>>

ChunkNext == CC_Iterate \/ CC_Return

SpecChunks == ChunkInit /\ [][ChunkNext]_vars

\* the chunks emitted so far
Emitted == IF cc_pc = "done" THEN result ELSE cc.chunks

\* the text that precedes the sentences of chunk k
SeedPrefix(k) == IF k = 1 THEN <<>> ELSE JoinSp(seeds[k]) \o <<" ">>

RECURSIVE Concat(_)
Concat(ss) == IF ss = <<>> THEN <<>> ELSE Head(ss) \o Concat(Tail(ss))

Min(a, b) == IF a < b THEN a ELSE b

LastWords(words, n) == SubSeq(words, Len(words) - n + 1, Len(words))

IsPrefix(p, s) == Len(p) <= Len(s) /\ SubSeq(s, 1, Len(p)) = p

\* C8: a chunk's word count less the words of its leading overlap is at most
\* max_words, unless the chunk holds a sentence that alone exceeds max_words.
C8_ChunkSizeBound ==
    \A k \in 1..Len(Emitted) :
        \/ WordCount(Emitted[k]) - Len(seeds[k]) <= max_words
        \/ \E j \in 1..Len(blocks[k]) : WordCount(blocks[k][j]) > max_words

C8_Witness ==
    /\ cc_pc = "done"
    /\ \E k \in 2..Len(result) :
          /\ Len(seeds[k]) > 0
          /\ WordCount(result[k]) > max_words
          /\ WordCount(result[k]) - Len(seeds[k]) = max_words
          /\ \A j \in 1..Len(blocks[k]) : WordCount(blocks[k][j]) <= max_words

\* C9 (as claimed): every chunk after the first begins with exactly the last
\* min(overlap_words, words of the preceding chunk) words of the preceding
\* chunk, followed by the sentence that triggered the close.
C9_OverlapAsClaimed ==
    \A k \in 2..Len(Emitted) :
        LET prev == Split(Emitted[k - 1])
            n    == Min(overlap_words, Len(prev))
        IN  /\ seeds[k] = LastWords(prev, n)
            /\ IsPrefix(LastWords(prev, n) \o Split(blocks[k][1]), Split(Emitted[k]))

\* C10: with the leading overlap prefix removed, chunk k is exactly a run of
\* whole sentences, and the runs of all chunks concatenated are the input.
C10_RoundTrip ==
    cc_pc = "done" =>
        /\ \A k \in 1..Len(result) : result[k] = SeedPrefix(k) \o JoinSp(blocks[k])
        /\ Concat(SubSeq(blocks, 1, Len(result))) = sentences

C10_Witness ==
    /\ cc_pc = "done"
    /\ Len(result) >= 2
    /\ Len(sentences) = MaxSentences
    /\ \E k \in 2..Len(result) : Len(seeds[k]) > 0 /\ Len(blocks[k]) >= 2

\* C13 (as claimed): when every sentence has at least one word, every chunk
\* create_chunks emits has at least one word; no empty chunk is emitted ahead
\* of a first sentence longer than max_words.
C13_NoEmptyChunks ==
    (\A j \in 1..Len(sentences) : WordCount(sentences[j]) >= 1) =>
        \A k \in 1..Len(Emitted) : WordCount(Emitted[k]) >= 1

====
